---------------------------- MODULE Spec2Model ----------------------------
(***************************************************************************)
(* Model of app/parse.py: a Selenium scraper that walks six listing pages  *)
(* of an e-commerce demo site with one shared browser session, expands     *)
(* each page with its "load more" link, extracts the product cards and     *)
(* writes one CSV file per page.                                           *)
(*                                                                         *)
(* Python values are modelled as follows.                                  *)
(*   - A computation that may raise returns a sequence of length at most   *)
(*     one: <<>> when it raises, <<v>> when it returns v.                  *)
(*   - select_one / find_elements results are sequences of elements (the   *)
(*     empty sequence is None / the empty list).                           *)
(*   - A text is a sequence of tokens (characters, or the multi-character  *)
(*     literals the code searches for, taken as one token).                *)
(*   - A float is [m, e], the decimal m / 10^e in lowest form.             *)
(***************************************************************************)
EXTENDS Integers, Sequences, FiniteSets, TLC

\* ------------------------------------------------------------------ bounds
MaxK == 2          \* largest number of activations a page needs
MaxCards == 1      \* largest number of cards on a page of the run
MaxPriceLen == 3   \* longest price text of a probed card
MaxReviewLen == 2  \* longest review caption of a probed card
MaxDescLen == 1    \* longest description text of a probed card
MaxStars == 6      \* largest number of star icons of a probed card
MaxPage == 3       \* longest page handed to get_products on its own
MaxFieldLen == 2   \* longest title or description of a record exported on its own
MaxRecords == 2    \* longest list of records exported on its own
MaxRuns == 2       \* calls of get_all_products in one process

\* --------------------------------------------------------------- utilities
Raise == <<>>
Return(v) == <<v>>
Raised(r) == r = <<>>

RECURSIVE SeqsUpTo(_, _)
SeqsUpTo(S, n) ==
    IF n = 0 THEN {<<>>}
    ELSE LET shorter == SeqsUpTo(S, n - 1)
         IN  shorter \cup {Append(s, x) : s \in {t \in shorter : Len(t) = n - 1}, x \in S}

\* str.replace(old, "") where old is one token: every occurrence is removed
RECURSIVE Remove(_, _)
Remove(text, tok) ==
    IF text = <<>> THEN <<>>
    ELSE IF Head(text) = tok THEN Remove(Tail(text), tok)
         ELSE <<Head(text)>> \o Remove(Tail(text), tok)

\* str.replace(old, new) where old and new are one token each
RECURSIVE Replace(_, _, _)
Replace(text, old, new) ==
    IF text = <<>> THEN <<>>
    ELSE <<IF Head(text) = old THEN new ELSE Head(text)>> \o Replace(Tail(text), old, new)

Digits == {"0", "1", "2", "3", "4", "5", "6", "7", "8", "9"}
DigitVal(d) ==
    CASE d = "0" -> 0 [] d = "1" -> 1 [] d = "2" -> 2 [] d = "3" -> 3
      [] d = "4" -> 4 [] d = "5" -> 5 [] d = "6" -> 6 [] d = "7" -> 7
      [] d = "8" -> 8 [] d = "9" -> 9

RECURSIVE DigitsVal(_)
DigitsVal(ds) ==
    IF ds = <<>> THEN 0
    ELSE 10 * DigitsVal(SubSeq(ds, 1, Len(ds) - 1)) + DigitVal(ds[Len(ds)])

AllDigits(text) == \A i \in 1..Len(text) : text[i] \in Digits

\* the decimal m / 10^e in lowest form
RECURSIVE Normal(_, _)
Normal(m, e) ==
    IF e > 0 /\ m % 10 = 0 THEN Normal(m \div 10, e - 1) ELSE [m |-> m, e |-> e]

\* int(text): decimal digits only, at least one
int(text) ==
    IF text # <<>> /\ AllDigits(text) THEN Return(DigitsVal(text)) ELSE Raise

\* float(text): digits with at most one decimal point and at least one digit
float(text) ==
    LET dots == {i \in 1..Len(text) : text[i] = "."}
        digs == Remove(text, ".")
    IN  IF Cardinality(dots) <= 1 /\ digs # <<>> /\ AllDigits(digs)
        THEN LET e == IF dots = {} THEN 0 ELSE Len(text) - (CHOOSE i \in dots : TRUE)
             IN  Return(Normal(DigitsVal(digs), e))
        ELSE Raise

\* ------------------------------------------------------------------ cards
(***************************************************************************)
(* A card is the markup of one product: for each selector of               *)
(* parse_single_product what the selector finds in it.                     *)
(*   title       <<>> no a.title link, << <<>> >> a link without a title   *)
(*               attribute, << <<t>> >> a link whose title attribute is t  *)
(*   description <<>> no .description block, <<text>> its text             *)
(*   price       <<>> no .price block, <<text>> its text                   *)
(*   stars       the number of span.ws-icon-star elements                  *)
(*   reviews     <<>> no p.review-count caption, <<text>> its text         *)
(***************************************************************************)
NBSP == "\\xa0"
REVIEWS == " reviews"

\* product_soup.select_one("a.title")["title"]
title_of(product_soup) ==
    IF product_soup.title = <<>> THEN Raise
    ELSE IF product_soup.title[1] = <<>> THEN Raise
    ELSE Return(product_soup.title[1][1])

\* product_soup.select_one(".description").text.replace("\xa0", " ")
description_of(product_soup) ==
    IF product_soup.description = <<>> THEN Raise
    ELSE Return(Replace(product_soup.description[1], NBSP, " "))

price_default_of(product_soup) ==
    IF product_soup.price = <<>> THEN Return([m |-> 0, e |-> 0])
    ELSE LET p == float(Remove(product_soup.price[1], "$"))
         IN  IF Raised(p) THEN Return([m |-> 0, e |-> 0]) ELSE p

\* float(product_soup.select_one(".price").text.replace("$", ""))
price_of(product_soup) ==
    IF product_soup.price = <<>> THEN Raise
    ELSE float(Remove(product_soup.price[1], "$"))

rating_of_range_checked(product_soup) ==
    IF product_soup.stars > 5 THEN Raise ELSE Return(product_soup.stars)

\* int(len(product_soup.select("span.ws-icon-star")))
rating_of(product_soup) == Return(product_soup.stars)

\* int(product_soup.select_one("p.review-count").text.replace(" reviews", ""))
num_of_reviews_of(product_soup) ==
    IF product_soup.reviews = <<>> THEN Raise
    ELSE int(Remove(product_soup.reviews[1], REVIEWS))

\* Product(...) is constructed only when all five arguments evaluated
parse_single_product(product_soup) ==
    LET t == title_of(product_soup)
        d == description_of(product_soup)
        p == price_of(product_soup)
        r == rating_of(product_soup)
        n == num_of_reviews_of(product_soup)
    IN  IF Raised(t) \/ Raised(d) \/ Raised(p) \/ Raised(r) \/ Raised(n) THEN Raise
        ELSE Return([title |-> t[1], description |-> d[1], price |-> p[1],
                     rating |-> r[1], num_of_reviews |-> n[1]])

parse_all_skipping(cards) ==
    LET good == SelectSeq(cards, LAMBDA card : ~Raised(parse_single_product(card)))
    IN  Return([i \in 1..Len(good) |-> parse_single_product(good[i])[1]])

\* [parse_single_product(product) for product in products]
RECURSIVE parse_all(_)
parse_all(cards) ==
    IF cards = <<>> THEN Return(<<>>)
    ELSE LET first == parse_single_product(Head(cards))
         IN  IF Raised(first) THEN Raise
             ELSE LET rest == parse_all(Tail(cards))
                  IN  IF Raised(rest) THEN Raise
                      ELSE Return(<<first[1]>> \o rest[1])

RECURSIVE Dedup(_)
Dedup(s) ==
    IF s = <<>> THEN <<>>
    ELSE LET init == Dedup(SubSeq(s, 1, Len(s) - 1))
         IN  IF \E i \in 1..Len(init) : init[i] = s[Len(s)]
             THEN init ELSE Append(init, s[Len(s)])

get_products_dedup(page_source) == parse_all(Dedup(page_source))

\* page_source is the sequence of .product-wrapper cards in document order
get_products(page_source) == parse_all(page_source)


\* ------------------------------------------------------------------- csv
QUOTE == "\""
COMMA == ","
CR == "\r"
LF == "\n"

DigitToken(d) == <<"0", "1", "2", "3", "4", "5", "6", "7", "8", "9">>[d + 1]

\* str(n) for an int n >= 0
RECURSIVE str_int(_)
str_int(n) == IF n < 10 THEN <<DigitToken(n)>> ELSE Append(str_int(n \div 10), DigitToken(n % 10))

RECURSIVE Zeros(_)
Zeros(n) == IF n <= 0 THEN <<>> ELSE <<"0">> \o Zeros(n - 1)

\* repr(x) for a float x = m / 10^e with 1e-4 <= x < 1e16 or x = 0: the
\* shortest decimal that reads back as x, always with a decimal point
repr_float(x) ==
    LET ds == str_int(x.m)
        padded == Zeros(x.e + 1 - Len(ds)) \o ds
        whole == SubSeq(padded, 1, Len(padded) - x.e)
        frac == SubSeq(padded, Len(padded) - x.e + 1, Len(padded))
    IN  whole \o <<".">> \o (IF x.e = 0 THEN <<"0">> ELSE frac)

\* ---------------------------------------------------------- the scrape run
(***************************************************************************)
(* The cards of the pages of a run: one well-formed card and one card      *)
(* without a price block.                                                  *)
(***************************************************************************)
GoodCard ==
    [title |-> << << <<"T">> >> >>, description |-> << <<"a", NBSP, "b">> >>,
     price |-> << <<"$", "6", ".", "5">> >>, stars |-> 3,
     reviews |-> << <<"4", "1", REVIEWS>> >>]
NoPriceCard == [GoodCard EXCEPT !.price = <<>>]
RunCards == {GoodCard, NoPriceCard}

page_urls == <<"more/", "computers/", "phones/", "computers/laptops", "computers/tablets", "phones/touch">>

file_names_swapped == <<"home.csv", "phones.csv", "computers.csv", "laptops.csv", "tablets.csv", "touch.csv">>
file_names == <<"home.csv", "computers.csv", "phones.csv", "laptops.csv", "tablets.csv", "touch.csv">>

TITLE_ROW == <<"title", "description", "price", "rating", "num_of_reviews">>

COOKIES_SELECTOR == "button.acceptCookies"
MORE_SELECTOR == "a.ecomerce-items-scroll-more"

VARIABLES
    pc,             \* position of the run in get_all_products / get_products_from_page
    filenum,        \* index of the for loop of get_all_products (0-based)
    _instances,     \* SingletonMeta._instances[SeleniumBrowser]: <<>> or <<session>>
    live,           \* browser sessions constructed and not closed
    closed,         \* browser sessions closed by driver.close()
    acquired,       \* number of SeleniumBrowser() calls made
    self,           \* the instance close_driver is called on (0: none)
    driver,         \* local driver of get_products_from_page (0: unbound)
    page,           \* what the browser shows: <<>> or <<page>>
    navigated,      \* the urls driver.get was called with, in order
    cookies_btn,    \* local cookies_btn
    more_btn,       \* local more_btn
    more_btn_style, \* local more_btn_style: <<>> unbound or <<set of declarations>>
    pbar,           \* local pbar: <<>> unbound or <<count>>
    waits,          \* completed WebDriverWait(...).until calls on the current page
    products,       \* value returned by get_products_from_page: <<>> or <<records>>
    files,          \* the working directory: name -> <<>> or <<file>>
    written,        \* the names save_to_csv has written, in order
    failure,        \* the exception that ended the run ("" while none)
    linesep,        \* os.linesep of the platform the program runs on
    runs            \* number of calls of get_all_products so far

vars == <<pc, filenum, _instances, live, closed, acquired, self, driver, page,
          navigated, cookies_btn, more_btn, more_btn_style, pbar, waits,
          products, files, written, failure, linesep, runs>>

NumCats == Len(page_urls)

\* a page the site can serve: K activations of the affordance until it is hidden
Pages ==
    {[banner |-> c, cookies |-> c, more |-> m, K |-> k, remaining |-> k, clicks |-> 0,
      consent_clicks |-> 0, initial |-> d, dom |-> d] :
        c \in BOOLEAN, m \in BOOLEAN, k \in 0..MaxK, d \in SeqsUpTo(RunCards, MaxCards)}
    \ {pg \in [banner : BOOLEAN, cookies : BOOLEAN, more : {FALSE}, K : 1..MaxK,
               remaining : 1..MaxK,
               clicks : {0}, consent_clicks : {0},
               initial : SeqsUpTo(RunCards, MaxCards),
               dom : SeqsUpTo(RunCards, MaxCards)] : TRUE}

\* the cards one activation can append to a page
Batches(pg) == SeqsUpTo(RunCards, IF Len(pg.dom) < MaxCards THEN 1 ELSE 0)

\* the working directory before the run: some destinations exist already
FileNames == {file_names[i] : i \in 1..Len(file_names)}
StaleNames == {"computers.csv", "laptops.csv", "touch.csv"}
StaleFile == <<"o", "l", "d", LF>>

\* os.linesep: "\n" on POSIX, "\r\n" on Windows
LineSeps == {<<LF>>, <<CR, LF>>}

Init ==
    /\ pc = "acquire"
    /\ filenum = 0
    /\ _instances = <<>>
    /\ live = {}
    /\ closed = {}
    /\ acquired = 0
    /\ self = 0
    /\ driver = 0
    /\ page = <<>>
    /\ navigated = <<>>
    /\ cookies_btn = <<>>
    /\ more_btn = <<>>
    /\ more_btn_style = <<>>
    /\ pbar = <<>>
    /\ waits = 0
    /\ products = <<>>
    /\ files = [n \in FileNames |-> IF n \in StaleNames THEN <<StaleFile>> ELSE <<>>]
    /\ written = <<>>
    /\ failure = ""
    /\ linesep \in LineSeps
    /\ runs = 1

\* an exception leaves get_all_products: nothing catches it
Propagate(exc) ==
    /\ pc' = "aborted"
    /\ failure' = exc
    /\ UNCHANGED <<filenum, _instances, live, closed, self, driver, page,
                   navigated, cookies_btn, more_btn, more_btn_style, pbar, waits,
                   products, files, written>>

\* a WebDriver command on a closed session raises
Stale == driver \notin live
INVALID_SESSION == "InvalidSessionIdException"

always_construct(registry) == TRUE

\* cls not in cls._instances
not_in_instances(registry) == registry = <<>>

SingletonMeta_call_registers_first(h) ==
    IF not_in_instances(_instances)
    THEN \/ /\ h = Cardinality(live \cup closed) + 1
            /\ live' = live \cup {h}
            /\ _instances' = <<h>>
         \/ /\ h = 0
            /\ _instances' = <<Cardinality(live \cup closed) + 1>>
            /\ UNCHANGED live
    ELSE /\ h = _instances[1]
         /\ UNCHANGED <<live, _instances>>

\* SingletonMeta.__call__ returning h; h = 0 when SeleniumBrowser.__init__ raises
SingletonMeta_call(h) ==
    IF not_in_instances(_instances)
    THEN \/ /\ h = Cardinality(live \cup closed) + 1
            /\ live' = live \cup {h}
            /\ _instances' = <<h>>
         \/ /\ h = 0
            /\ UNCHANGED <<live, _instances>>
    ELSE /\ h = _instances[1]
         /\ UNCHANGED <<live, _instances>>

\* driver = SeleniumBrowser().get_driver()
Acquire ==
    /\ pc = "acquire"
    /\ acquired' = acquired + 1
    /\ \E h \in 0..(NumCats + 1) :
        /\ SingletonMeta_call(h)
        /\ IF h = 0
           THEN /\ pc' = "aborted"
                /\ failure' = "WebDriverException"
                /\ UNCHANGED driver
           ELSE /\ pc' = "get"
                /\ driver' = h
                /\ UNCHANGED failure
    /\ UNCHANGED <<filenum, closed, self, page, navigated, cookies_btn, more_btn,
                   more_btn_style, pbar, waits, products, files, written, linesep,
                   runs>>

\* driver.get(page_url); time.sleep(5)
Navigate ==
    /\ pc = "get"
    /\ IF Stale THEN Propagate(INVALID_SESSION)
       ELSE /\ \E pg \in Pages : page' = <<pg>>
            /\ navigated' = Append(navigated, page_urls[filenum + 1])
            /\ waits' = 0
            /\ pc' = "cookies"
            /\ UNCHANGED <<filenum, _instances, live, closed, self, driver,
                           cookies_btn, more_btn, more_btn_style, pbar, products,
                           files, written, failure>>
    /\ UNCHANGED <<acquired, linesep, runs>>

\* driver.find_elements(By.CSS_SELECTOR, selector)
find_elements(pg, selector) ==
    IF selector = COOKIES_SELECTOR THEN (IF pg.cookies THEN <<COOKIES_SELECTOR>> ELSE <<>>)
    ELSE IF selector = MORE_SELECTOR THEN (IF pg.more THEN <<MORE_SELECTOR>> ELSE <<>>)
    ELSE <<>>

always_true(list) == TRUE

\* if cookies_btn: / if more_btn: the truth value of a list
truthy(list) == list # <<>>

AcceptCookiesUnchecked ==
    /\ pc = "cookies"
    /\ IF Stale THEN Propagate(INVALID_SESSION)
       ELSE /\ cookies_btn' = find_elements(page[1], COOKIES_SELECTOR)
            /\ page' = <<[page[1] EXCEPT !.cookies = FALSE, !.consent_clicks = @ + 1]>>
            /\ pc' = "find_more"
            /\ UNCHANGED <<filenum, _instances, live, closed, self, driver,
                           navigated, more_btn, more_btn_style, pbar, waits,
                           products, files, written, failure>>
    /\ UNCHANGED <<acquired, linesep, runs>>

\* cookies_btn = ...; if cookies_btn: cookies_btn[0].click()
AcceptCookies ==
    /\ pc = "cookies"
    /\ IF Stale THEN Propagate(INVALID_SESSION)
       ELSE LET found == find_elements(page[1], COOKIES_SELECTOR)
            IN  /\ cookies_btn' = found
                /\ page' = IF truthy(found)
                           THEN <<[page[1] EXCEPT !.cookies = FALSE,
                                                  !.consent_clicks = @ + 1]>>
                           ELSE page
                /\ pc' = "find_more"
                /\ UNCHANGED <<filenum, _instances, live, closed, self, driver,
                               navigated, more_btn, more_btn_style, pbar, waits,
                               products, files, written, failure>>
    /\ UNCHANGED <<acquired, linesep, runs>>

\* more_btn = driver.find_elements(...); if more_btn:
FindMore ==
    /\ pc = "find_more"
    /\ IF Stale THEN Propagate(INVALID_SESSION)
       ELSE LET found == find_elements(page[1], MORE_SELECTOR)
            IN  /\ more_btn' = found
                /\ pc' = IF truthy(found) THEN "read_style" ELSE "return"
                /\ UNCHANGED <<filenum, _instances, live, closed, self, driver, page,
                               navigated, cookies_btn, more_btn_style, pbar, waits,
                               products, files, written, failure>>
    /\ UNCHANGED <<acquired, linesep, runs>>

\* element.get_attribute("style") of the affordance: the set of its declarations
get_attribute_style(pg) == IF pg.remaining = 0 THEN {"display: none"} ELSE {"display: block"}

\* more_btn = more_btn[0]; more_btn_style = more_btn.get_attribute("style"); pbar = tqdm()
ReadStyle ==
    /\ pc = "read_style"
    /\ IF more_btn = <<>> THEN Propagate("IndexError")
       ELSE IF Stale THEN Propagate(INVALID_SESSION)
       ELSE /\ more_btn_style' = <<get_attribute_style(page[1])>>
            /\ pbar' = <<0>>
            /\ pc' = "while"
            /\ UNCHANGED <<filenum, _instances, live, closed, self, driver, page,
                           navigated, cookies_btn, more_btn, waits, products, files,
                           written, failure>>
    /\ UNCHANGED <<acquired, linesep, runs>>

loop_condition_inverted(style) == "display: none" \in style

loop_condition_typo(style) == "display:none" \notin style

\* "display: none" not in more_btn_style
loop_condition(style) == "display: none" \notin style

WhileSpins ==
    /\ pc = "while"
    /\ pc' = IF loop_condition(more_btn_style[1]) THEN "click" ELSE "while"
    /\ UNCHANGED <<filenum, _instances, live, closed, acquired, self, driver, page,
                   navigated, cookies_btn, more_btn, more_btn_style, pbar, waits,
                   products, files, written, failure, linesep, runs>>

\* while "display: none" not in more_btn_style:
While ==
    /\ pc = "while"
    /\ pc' = IF loop_condition(more_btn_style[1]) THEN "click" ELSE "return"
    /\ UNCHANGED <<filenum, _instances, live, closed, acquired, self, driver, page,
                   navigated, cookies_btn, more_btn, more_btn_style, pbar, waits,
                   products, files, written, failure, linesep, runs>>

\* the site's reaction to an activation of the affordance
Activated(pg, batch) ==
    [pg EXCEPT !.clicks = @ + 1,
               !.remaining = IF @ > 0 THEN @ - 1 ELSE 0,
               !.dom = IF pg.remaining > 0 THEN @ \o batch ELSE @]

\* driver.execute_script("arguments[0].click();", more_btn)
Click ==
    /\ pc = "click"
    /\ IF Stale THEN Propagate(INVALID_SESSION)
       ELSE /\ \E batch \in Batches(page[1]) : page' = <<Activated(page[1], batch)>>
            /\ pc' = "wait"
            /\ UNCHANGED <<filenum, _instances, live, closed, self, driver, navigated,
                           cookies_btn, more_btn, more_btn_style, pbar, waits,
                           products, files, written, failure>>
    /\ UNCHANGED <<acquired, linesep, runs>>

WaitSwallowTimeout ==
    /\ pc = "wait"
    /\ IF Stale THEN Propagate(INVALID_SESSION)
       ELSE \/ /\ more_btn' = <<MORE_SELECTOR>>
               /\ waits' = waits + 1
               /\ pc' = "style"
               /\ UNCHANGED <<filenum, _instances, live, closed, self, driver, page,
                              navigated, cookies_btn, more_btn_style, pbar, products,
                              files, written, failure>>
            \/ /\ pc' = "return"
               /\ UNCHANGED <<filenum, _instances, live, closed, self, driver, page,
                              navigated, cookies_btn, more_btn, more_btn_style, pbar,
                              waits, products, files, written, failure>>
    /\ UNCHANGED <<acquired, linesep, runs>>

\* more_btn = WebDriverWait(driver, 5).until(presence_of_element_located(...))
Wait ==
    /\ pc = "wait"
    /\ IF Stale THEN Propagate(INVALID_SESSION)
       ELSE \/ /\ more_btn' = <<MORE_SELECTOR>>
               /\ waits' = waits + 1
               /\ pc' = "style"
               /\ UNCHANGED <<filenum, _instances, live, closed, self, driver, page,
                              navigated, cookies_btn, more_btn_style, pbar, products,
                              files, written, failure>>
            \/ Propagate("TimeoutException")
    /\ UNCHANGED <<acquired, linesep, runs>>

StyleWithoutUpdate ==
    /\ pc = "style"
    /\ IF Stale THEN Propagate(INVALID_SESSION)
       ELSE /\ more_btn_style' = <<get_attribute_style(page[1])>>
            /\ pc' = "while"
            /\ UNCHANGED <<filenum, _instances, live, closed, self, driver, page,
                           navigated, cookies_btn, more_btn, pbar, waits, products,
                           files, written, failure>>
    /\ UNCHANGED <<acquired, linesep, runs>>

\* more_btn_style = more_btn.get_attribute("style"); pbar.update(1)
Style ==
    /\ pc = "style"
    /\ IF Stale THEN Propagate(INVALID_SESSION)
       ELSE /\ more_btn_style' = <<get_attribute_style(page[1])>>
            /\ pbar' = <<pbar[1] + 1>>
            /\ pc' = "while"
            /\ UNCHANGED <<filenum, _instances, live, closed, self, driver, page,
                           navigated, cookies_btn, more_btn, waits, products, files,
                           written, failure>>
    /\ UNCHANGED <<acquired, linesep, runs>>

\* driver.page_source: the cards of the rendered document
page_source(pg) == pg.dom

HarvestAndClose ==
    /\ pc = "return"
    /\ IF Stale THEN Propagate(INVALID_SESSION)
       ELSE LET result == get_products(page_source(page[1]))
            IN  IF Raised(result)
                THEN Propagate("ExtractionError")
                ELSE /\ products' = result
                     /\ pc' = "save"
                     /\ live' = live \ {driver}
                     /\ closed' = closed \cup {driver}
                     /\ UNCHANGED <<filenum, _instances, self, driver, page,
                                    navigated, cookies_btn, more_btn, more_btn_style,
                                    pbar, waits, files, written, failure>>
    /\ UNCHANGED <<acquired, linesep, runs>>

\* return get_products(driver)
Harvest ==
    /\ pc = "return"
    /\ IF Stale THEN Propagate(INVALID_SESSION)
       ELSE LET result == get_products(page_source(page[1]))
            IN  IF Raised(result)
                THEN Propagate("ExtractionError")
                ELSE /\ products' = result
                     /\ pc' = "save"
                     /\ UNCHANGED <<filenum, _instances, live, closed, self, driver,
                                    page, navigated, cookies_btn, more_btn,
                                    more_btn_style, pbar, waits, files, written,
                                    failure>>
    /\ UNCHANGED <<acquired, linesep, runs>>

\* astuple(product)
astuple(product) ==
    <<product.title, product.description, product.price, product.rating,
      product.num_of_reviews>>

\* the text csv.writer writes for each field of astuple(product): str of a str
\* is itself, of a float its repr, of an int its decimal digits
field_texts(row) ==
    <<row[1], row[2], repr_float(row[3]), str_int(row[4]), str_int(row[5])>>

\* QUOTE_MINIMAL: a field is quoted when it holds the delimiter, the quote
\* character or a character of the line terminator
needs_quotes(field) == \E i \in 1..Len(field) : field[i] \in {COMMA, QUOTE, CR, LF}

RECURSIVE DoubleQuotes(_)
DoubleQuotes(field) ==
    IF field = <<>> THEN <<>>
    ELSE (IF Head(field) = QUOTE THEN <<QUOTE, QUOTE>> ELSE <<Head(field)>>)
             \o DoubleQuotes(Tail(field))

csv_field(field) ==
    IF needs_quotes(field) THEN <<QUOTE>> \o DoubleQuotes(field) \o <<QUOTE>> ELSE field

\* writer.writerow(fields): the fields joined by "," and ended by "\r\n"
RECURSIVE csv_join(_)
csv_join(fields) ==
    IF Len(fields) = 1 THEN csv_field(fields[1])
    ELSE csv_field(Head(fields)) \o <<COMMA>> \o csv_join(Tail(fields))

writerow(fields) == csv_join(fields) \o <<CR, LF>>

RECURSIVE writerows(_)
writerows(rows) ==
    IF rows = <<>> THEN <<>> ELSE writerow(field_texts(Head(rows))) \o writerows(Tail(rows))

\* writer.writerow(TITLE_ROW); writer.writerows([astuple(p) for p in products])
csv_writer(records) ==
    writerow([i \in 1..Len(TITLE_ROW) |-> <<TITLE_ROW[i]>>])
        \o writerows([i \in 1..Len(records) |-> astuple(records[i])])

\* a text-mode file opened without newline="": every "\n" written becomes os.linesep
RECURSIVE translate_newlines(_, _)
translate_newlines(text, sep) ==
    IF text = <<>> THEN <<>>
    ELSE (IF Head(text) = LF THEN sep ELSE <<Head(text)>>)
             \o translate_newlines(Tail(text), sep)

open_a_write(old, sep, text) ==
    (IF old = <<>> THEN <<>> ELSE old[1]) \o translate_newlines(text, sep)

\* open(file_name, "w"): the file is created or truncated, then written
open_w_write(old, sep, text) == translate_newlines(text, sep)

for_ends_early(i) == IF i + 1 < NumCats - 1 THEN "acquire" ELSE "release"

\* for filenum, page_url in enumerate(page_urls): ... ; after the loop, line 155
for_next(i) == IF i + 1 < NumCats THEN "acquire" ELSE "release"

\* save_to_csv(file_name=filename, products=...), then the next iteration
SaveToCsv ==
    /\ pc = "save"
    /\ files' = [files EXCEPT
                     ![file_names[filenum + 1]] =
                         <<open_w_write(files[file_names[filenum + 1]], linesep,
                                        csv_writer(products[1]))>>]
    /\ written' = Append(written, file_names[filenum + 1])
    /\ products' = <<>>
    /\ pc' = for_next(filenum)
    /\ filenum' = IF for_next(filenum) = "acquire" THEN filenum + 1 ELSE filenum
    /\ driver' = 0
    /\ cookies_btn' = <<>>
    /\ more_btn' = <<>>
    /\ more_btn_style' = <<>>
    /\ pbar' = <<>>
    /\ UNCHANGED <<_instances, live, closed, acquired, self, page, navigated, waits,
                   failure, linesep, runs>>

\* SeleniumBrowser() of line 155
AcquireForRelease ==
    /\ pc = "release"
    /\ acquired' = acquired + 1
    /\ \E h \in 0..(NumCats + 1) :
        /\ SingletonMeta_call(h)
        /\ IF h = 0
           THEN /\ pc' = "aborted"
                /\ failure' = "WebDriverException"
                /\ UNCHANGED self
           ELSE /\ pc' = "close_driver"
                /\ self' = h
                /\ UNCHANGED failure
    /\ UNCHANGED <<filenum, closed, driver, page, navigated, cookies_btn, more_btn,
                   more_btn_style, pbar, waits, products, files, written, linesep,
                   runs>>

close_driver_keeps_instance ==
    /\ pc = "close_driver"
    /\ IF self \notin live THEN Propagate(INVALID_SESSION)
       ELSE /\ live' = live \ {self}
            /\ closed' = closed \cup {self}
            /\ pc' = "done"
            /\ UNCHANGED <<filenum, _instances, self, driver, page, navigated,
                           cookies_btn, more_btn, more_btn_style, pbar, waits,
                           products, files, written, failure>>
    /\ UNCHANGED <<acquired, linesep, runs>>

\* self.driver.close(); del SeleniumBrowser._instances[type(self)]
close_driver ==
    /\ pc = "close_driver"
    /\ IF self \notin live THEN Propagate(INVALID_SESSION)
       ELSE /\ live' = live \ {self}
            /\ closed' = closed \cup {self}
            /\ _instances' = <<>>
            /\ pc' = "done"
            /\ UNCHANGED <<filenum, self, driver, page, navigated, cookies_btn,
                           more_btn, more_btn_style, pbar, waits, products, files,
                           written, failure>>
    /\ UNCHANGED <<acquired, linesep, runs>>

Next ==
    \/ Acquire
    \/ Navigate
    \/ AcceptCookies
    \/ FindMore
    \/ ReadStyle
    \/ While
    \/ Click
    \/ Wait
    \/ Style
    \/ Harvest
    \/ SaveToCsv
    \/ AcquireForRelease
    \/ close_driver

Spec == Init /\ [][Next]_vars

\* ------------------------------------------------- the end of the run
(***************************************************************************)
(* The run from the iteration of the for loop that starts the last         *)
(* category, after five pages of one card without affordance were          *)
(* exported: the last iteration and the release.  The interpreter keeps    *)
(* executing the next statement, and every command sent to the browser     *)
(* returns or raises: weak fairness of Next.                               *)
(***************************************************************************)
LiveStart == NumCats - 1

\* the records of GoodCard
LiveExport == <<parse_single_product(GoodCard)[1]>>

LiveInit ==
    \E sep \in LineSeps :
        /\ pc = "acquire"
        /\ filenum = LiveStart
        /\ _instances = <<1>>
        /\ live = {1}
        /\ closed = {}
        /\ acquired = LiveStart
        /\ self = 0
        /\ driver = 0
        /\ page = <<[banner |-> FALSE, cookies |-> FALSE, more |-> FALSE, K |-> 0,
                     remaining |-> 0, clicks |-> 0, consent_clicks |-> 0,
                     initial |-> <<GoodCard>>, dom |-> <<GoodCard>>]>>
        /\ navigated = SubSeq(page_urls, 1, LiveStart)
        /\ cookies_btn = <<>>
        /\ more_btn = <<>>
        /\ more_btn_style = <<>>
        /\ pbar = <<>>
        /\ waits = 0
        /\ products = <<>>
        /\ files = [n \in FileNames |->
                      IF \E i \in 1..LiveStart : file_names[i] = n
                      THEN <<open_w_write(<<>>, sep, csv_writer(LiveExport))>>
                      ELSE IF n \in StaleNames THEN <<StaleFile>> ELSE <<>>]
        /\ written = SubSeq(file_names, 1, LiveStart)
        /\ failure = ""
        /\ linesep = sep
        /\ runs = 1

SpecLive == LiveInit /\ [][Next]_vars /\ WF_vars(Next)


\* ------------------------------------------------- get_products on its own
(***************************************************************************)
(* The last step of get_products_from_page, get_products(driver), started  *)
(* on every probed page: pages of one card whose number texts or whose     *)
(* sub-elements take every form, and longer pages of a few cards.          *)
(***************************************************************************)
OtherCard ==
    [title |-> << << <<"U">> >> >>, description |-> << <<"a">> >>,
     price |-> << <<"6">> >>, stars |-> 5, reviews |-> << <<"4", REVIEWS>> >>]
PageCards == {GoodCard, OtherCard, NoPriceCard}

Optional(S) == {<<>>} \cup {<<x>> : x \in S}

GoodDescription == <<"a", NBSP, "b">>
GoodPrice == <<"$", "6", ".", "5">>
GoodReviews == <<"4", "1", REVIEWS>>
PriceTexts == SeqsUpTo({"$", "6", ".", ","}, MaxPriceLen)
ReviewTexts == SeqsUpTo({"4", REVIEWS, " review"}, MaxReviewLen)
DescriptionTexts == SeqsUpTo({"a", NBSP}, MaxDescLen)
TitleMarkups == {<<>>, << <<>> >>, << << <<"T">> >> >>}

\* cards whose number texts take every form
TextProbeCards ==
    [title : TitleMarkups,
     description : Optional({GoodDescription}),
     price : Optional(PriceTexts),
     stars : {3},
     reviews : Optional(ReviewTexts)]

\* cards whose sub-elements are present or absent in every combination
ShapeProbeCards ==
    [title : TitleMarkups,
     description : Optional(DescriptionTexts),
     price : Optional({GoodPrice, <<"6", ",", "5">>}),
     stars : 0..MaxStars,
     reviews : Optional({GoodReviews, <<"1", " review">>})]

ProbeSources ==
    {<<c>> : c \in TextProbeCards \cup ShapeProbeCards} \cup SeqsUpTo(PageCards, MaxPage)

\* get_products_from_page at line 126 of the first category, the browser
\* showing a page without affordances whose cards are probe_source
ProbeInit ==
    \E source \in ProbeSources :
        /\ pc = "return"
        /\ filenum = 0
        /\ _instances = <<1>>
        /\ live = {1}
        /\ closed = {}
        /\ acquired = 1
        /\ self = 0
        /\ driver = 1
        /\ page = <<[banner |-> FALSE, cookies |-> FALSE, more |-> FALSE, K |-> 0,
                     remaining |-> 0,
                     clicks |-> 0, consent_clicks |-> 0, initial |-> source,
                     dom |-> source]>>
        /\ navigated = <<page_urls[1]>>
        /\ cookies_btn = <<>>
        /\ more_btn = <<>>
        /\ more_btn_style = <<>>
        /\ pbar = <<>>
        /\ waits = 0
        /\ products = <<>>
        /\ files = [n \in FileNames |-> IF n \in StaleNames THEN <<StaleFile>> ELSE <<>>]
        /\ written = <<>>
        /\ failure = ""
        /\ linesep \in LineSeps
        /\ runs = 1

ProbeNext == Harvest

SpecProbe == ProbeInit /\ [][ProbeNext]_vars

\* ------------------------------------------- the session across two calls
(***************************************************************************)
(* get_all_products called again in the process that called it before:     *)
(* the registry of SingletonMeta, the sessions and the files outlive the    *)
(* call.  The specification follows the acquisitions and the release only:  *)
(* it starts before the first acquisition of a call, or after the sixth     *)
(* export of a call in which every category succeeded.                     *)
(***************************************************************************)
\* get_all_products() entered again after it returned or raised
Rerun ==
    /\ pc \in {"done", "aborted"}
    /\ runs < MaxRuns
    /\ runs' = runs + 1
    /\ pc' = "acquire"
    /\ filenum' = 0
    /\ failure' = ""
    /\ self' = 0
    /\ driver' = 0
    /\ cookies_btn' = <<>>
    /\ more_btn' = <<>>
    /\ more_btn_style' = <<>>
    /\ pbar' = <<>>
    /\ waits' = 0
    /\ products' = <<>>
    /\ UNCHANGED <<_instances, live, closed, acquired, page, navigated, files, written,
                   linesep>>

\* the records of the run's cards
RunRecords == {parse_single_product(card)[1] :
                 card \in {c \in RunCards : ~Raised(parse_single_product(c))}}

\* line 155 reached: six pages without affordance were exported
AfterLastExport ==
    \E exported \in [1..NumCats -> SeqsUpTo(RunRecords, MaxCards)], sep \in LineSeps :
        /\ pc = "release"
        /\ filenum = NumCats - 1
        /\ _instances = <<1>>
        /\ live = {1}
        /\ closed = {}
        /\ acquired = NumCats
        /\ self = 0
        /\ driver = 0
        /\ page = <<[banner |-> FALSE, cookies |-> FALSE, more |-> FALSE, K |-> 0,
                     remaining |-> 0, clicks |-> 0, consent_clicks |-> 0,
                     initial |-> [i \in 1..Len(exported[NumCats]) |-> GoodCard],
                     dom |-> [i \in 1..Len(exported[NumCats]) |-> GoodCard]]>>
        /\ navigated = page_urls
        /\ cookies_btn = <<>>
        /\ more_btn = <<>>
        /\ more_btn_style = <<>>
        /\ pbar = <<>>
        /\ waits = 0
        /\ products = <<>>
        /\ files = [n \in FileNames |->
                      LET i == CHOOSE k \in 1..NumCats : file_names[k] = n
                      IN  <<open_w_write(<<>>, sep, csv_writer(exported[i]))>>]
        /\ written = file_names
        /\ failure = ""
        /\ linesep = sep
        /\ runs = 1

SessionInit == Init \/ AfterLastExport

SessionNext ==
    \/ Acquire
    \/ AcquireForRelease
    \/ close_driver
    \/ Rerun

SpecSession == SessionInit /\ [][SessionNext]_vars

\* ------------------------------------------------- save_to_csv on its own
(***************************************************************************)
(* save_to_csv started on every probed list of records, for the first      *)
(* destination (no file yet) and the second (a file exists), and the       *)
(* file read back with csv.reader from a file opened with newline="".      *)
(***************************************************************************)
after_eol(c, rest) == IF c = CR /\ rest # <<>> /\ Head(rest) = LF THEN Tail(rest) ELSE rest

\* csv.reader: the rows of the text, a blank line giving the empty row
RECURSIVE csv_parse(_, _, _, _, _)
csv_parse(text, state, field, row, rows) ==
    IF text = <<>>
    THEN IF state = "start_record" THEN rows ELSE Append(rows, Append(row, field))
    ELSE LET c == Head(text)
             rest == Tail(text)
             eol == c \in {CR, LF}
         IN  CASE state = "start_record" ->
                    IF eol THEN csv_parse(after_eol(c, rest), "start_record", <<>>, <<>>,
                                          Append(rows, <<>>))
                    ELSE csv_parse(text, "start_field", <<>>, <<>>, rows)
               [] state = "start_field" ->
                    IF eol THEN csv_parse(after_eol(c, rest), "start_record", <<>>, <<>>,
                                          Append(rows, Append(row, <<>>)))
                    ELSE IF c = QUOTE THEN csv_parse(rest, "in_quoted", <<>>, row, rows)
                    ELSE IF c = COMMA
                         THEN csv_parse(rest, "start_field", <<>>, Append(row, <<>>), rows)
                    ELSE csv_parse(rest, "in_field", <<c>>, row, rows)
               [] state = "in_field" ->
                    IF eol THEN csv_parse(after_eol(c, rest), "start_record", <<>>, <<>>,
                                          Append(rows, Append(row, field)))
                    ELSE IF c = COMMA
                         THEN csv_parse(rest, "start_field", <<>>, Append(row, field), rows)
                    ELSE csv_parse(rest, "in_field", Append(field, c), row, rows)
               [] state = "in_quoted" ->
                    IF c = QUOTE THEN csv_parse(rest, "quote_in_quoted", field, row, rows)
                    ELSE csv_parse(rest, "in_quoted", Append(field, c), row, rows)
               [] state = "quote_in_quoted" ->
                    IF c = QUOTE THEN csv_parse(rest, "in_quoted", Append(field, c), row, rows)
                    ELSE IF c = COMMA
                         THEN csv_parse(rest, "start_field", <<>>, Append(row, field), rows)
                    ELSE IF eol
                         THEN csv_parse(after_eol(c, rest), "start_record", <<>>, <<>>,
                                        Append(rows, Append(row, field)))
                    ELSE csv_parse(rest, "in_field", Append(field, c), row, rows)

csv_reader(text) == csv_parse(text, "start_record", <<>>, <<>>, <<>>)

RECURSIVE NonBlank(_)
NonBlank(rows) ==
    IF rows = <<>> THEN <<>>
    ELSE (IF Head(rows) = <<>> THEN <<>> ELSE <<Head(rows)>>) \o NonBlank(Tail(rows))

\* the Product a data row parses back to
parse_row(row) ==
    IF Len(row) # Len(TITLE_ROW) THEN Raise
    ELSE LET p == float(row[3])
             r == int(row[4])
             n == int(row[5])
         IN  IF Raised(p) \/ Raised(r) \/ Raised(n) THEN Raise
             ELSE Return([title |-> row[1], description |-> row[2], price |-> p[1],
                          rating |-> r[1], num_of_reviews |-> n[1]])

RECURSIVE parse_rows(_)
parse_rows(rows) ==
    IF rows = <<>> THEN Return(<<>>)
    ELSE LET first == parse_row(Head(rows))
             rest == parse_rows(Tail(rows))
         IN  IF Raised(first) \/ Raised(rest) THEN Raise
             ELSE Return(<<first[1]>> \o rest[1])

\* re-reading a file: the header row is dropped, blank rows are skipped
read_records(text) ==
    LET rows == NonBlank(csv_reader(text))
    IN  IF rows = <<>> THEN Raise ELSE parse_rows(Tail(rows))

GoodRecord ==
    [title |-> <<"T">>, description |-> <<"a", " ", "b">>, price |-> [m |-> 65, e |-> 1],
     rating |-> 3, num_of_reviews |-> 41]
OtherRecord ==
    [title |-> <<"U">>, description |-> <<"a">>, price |-> [m |-> 6, e |-> 0],
     rating |-> 5, num_of_reviews |-> 4]
QuotedRecord ==
    [title |-> <<"T", COMMA, "U">>, description |-> <<"a", QUOTE, "b">>,
     price |-> [m |-> 5, e |-> 2], rating |-> 0, num_of_reviews |-> 0]

\* records with every probed title and description, and with every probed number
CsvRecords ==
    {[GoodRecord EXCEPT !.title = t, !.description = d] :
        t \in SeqsUpTo({"T", COMMA}, MaxFieldLen - 1),
        d \in SeqsUpTo({"a", " ", COMMA, QUOTE, CR, LF}, MaxFieldLen)}
      \cup {[GoodRecord EXCEPT !.price = p, !.rating = r, !.num_of_reviews = n] :
               p \in {[m |-> 65, e |-> 1], [m |-> 6, e |-> 0], [m |-> 5, e |-> 2]},
               r \in {0, 3}, n \in {0, 41}}

CsvRecordLists ==
    {<<r>> : r \in CsvRecords}
        \cup SeqsUpTo({GoodRecord, OtherRecord, QuotedRecord}, MaxRecords)

\* get_all_products at line 151 of the first or the second category
CsvInit ==
    \E records \in CsvRecordLists, first \in BOOLEAN, sep \in LineSeps :
        /\ pc = "save"
        /\ filenum = IF first THEN 0 ELSE 1
        /\ _instances = <<1>>
        /\ live = {1}
        /\ closed = {}
        /\ acquired = IF first THEN 1 ELSE 2
        /\ self = 0
        /\ driver = 1
        /\ page = <<[banner |-> FALSE, cookies |-> FALSE, more |-> FALSE, K |-> 0,
                     remaining |-> 0, clicks |-> 0, consent_clicks |-> 0,
                     initial |-> <<>>, dom |-> <<>>]>>
        /\ navigated = IF first THEN <<page_urls[1]>> ELSE <<page_urls[1], page_urls[2]>>
        /\ cookies_btn = <<>>
        /\ more_btn = <<>>
        /\ more_btn_style = <<>>
        /\ pbar = <<>>
        /\ waits = 0
        /\ products = <<records>>
        /\ files = [n \in FileNames |->
                      IF n \in StaleNames THEN <<StaleFile>>
                      ELSE IF n = file_names[1] /\ ~first
                           THEN <<open_w_write(<<>>, sep, csv_writer(<<>>))>>
                      ELSE <<>>]
        /\ written = IF first THEN <<>> ELSE <<file_names[1]>>
        /\ failure = ""
        /\ linesep = sep
        /\ runs = 1

CsvNext == SaveToCsv

SpecCsv == CsvInit /\ [][CsvNext]_vars

\* ------------------------------------------------------------- properties
\* positions of get_products_from_page after the session was acquired
PagePcs == {"get", "cookies", "find_more", "read_style", "while", "click", "wait",
            "style", "return"}
LoopPcs == {"read_style", "while", "click", "wait", "style"}
Ended == pc \in {"done", "aborted"}
StyleHidden == more_btn_style # <<>> /\ "display: none" \in more_btn_style[1]

IsPrefix(s, t) == Len(s) <= Len(t) /\ \A i \in 1..Len(s) : s[i] = t[i]

\* C1: at most one session is live in every state; only the first acquire
\* constructs a session, and every later acquire before the release hands out
\* that same session.
C1_SingleLiveSession ==
    /\ Cardinality(live) <= 1
    /\ live \cup closed \subseteq {1}
    /\ driver \in {0, 1}
    /\ self \in {0, 1}
    /\ (pc \in PagePcs => _instances = <<driver>> /\ live = {driver})

C1_Witness == acquired >= 3 /\ pc = "get" /\ driver = 1 /\ live = {1} /\ closed = {}

\* C2: the affordance is never activated more often than the K activations
\* after which the page hides it, and no step taken while the style last read
\* says hidden activates it.
C2_LoopStopsWhenHidden ==
    /\ [](page # <<>> => page[1].clicks <= page[1].K)
    /\ [][StyleHidden => page' # <<>> /\ page # <<>> /\ page'[1].clicks = page[1].clicks]_vars

C2_Witness ==
    /\ pc = "return"
    /\ page # <<>> /\ page[1].more /\ page[1].K = 2 /\ page[1].clicks = 2
    /\ StyleHidden

\* C3: when the run has ended, normally or by an exception, the session that
\* was constructed has been closed exactly once.
C3_ReleasedOnEveryExit ==
    (Ended /\ live \cup closed # {}) => (Cardinality(closed) = 1 /\ live = {})

\* C4: a run that ends normally has written all six files and closed the
\* session once; the session is closed only after the sixth export, and it
\* is live during the processing of every category.
C4_ReleaseAfterLastExport ==
    /\ Cardinality(closed) <= 1
    /\ (pc = "done" => Cardinality(closed) = 1 /\ live = {} /\ Len(written) = 6)
    /\ (closed # {} => Len(written) = 6 /\ pc = "done")
    /\ (pc \in PagePcs \cup {"save"} => _instances # <<>> /\ _instances[1] \in live)

C4_Witness == pc = "done" /\ Len(written) = 6 /\ closed = {1} /\ acquired = 7

\* C5: no WebDriver command is issued on a closed session: no command ever
\* fails for a closed session, the handle a page is processed with is not a
\* closed one, and once the session is closed the run has ended.
C5_NoUseAfterRelease ==
    /\ failure # INVALID_SESSION
    /\ (pc \in PagePcs => driver \notin closed)
    /\ (closed # {} => pc = "done")

C5_Witness == pc = "done" /\ closed = {1} /\ Len(navigated) = 6 /\ driver = 0

\* C6: on a page without the affordance the expansion loop is never entered:
\* no activation, no reappearance wait, no failure of the loop, and the
\* records returned are those of the cards of the initial render, in order.
C6_NoAffordanceNoExpansion ==
    (page # <<>> /\ ~page[1].more) =>
        /\ page[1].clicks = 0
        /\ waits = 0
        /\ pc \notin LoopPcs
        /\ failure \notin {"TimeoutException", "IndexError"}
        /\ (pc = "save" =>
               /\ Len(products[1]) = Len(page[1].initial)
               /\ \A i \in 1..Len(products[1]) :
                      <<products[1][i]>> = parse_single_product(page[1].initial[i]))

C6_Witness ==
    /\ pc = "save"
    /\ page # <<>> /\ ~page[1].more /\ page[1].initial = <<GoodCard>>
    /\ products = << <<GoodRecord>> >>

\* C7: once an activation's reappearance wait has not completed, the run is
\* aborted by the timeout: no records are returned for the page, its file is
\* not written, and nothing is extracted from the partially expanded page.
C7_TimeoutIsFatal ==
    /\ (page # <<>> /\ page[1].clicks > waits /\ pc # "wait") =>
           /\ pc = "aborted"
           /\ failure = "TimeoutException"
           /\ products = <<>>
           /\ Len(written) = filenum
    /\ (failure = "TimeoutException" => pc = "aborted" /\ page[1].clicks = waits + 1)

C7_Witness ==
    /\ failure = "TimeoutException"
    /\ pc = "aborted"
    /\ page[1].clicks = 2
    /\ filenum = 1

\* C8: a page holding a card with a missing sub-element or an unparsable
\* number yields no records at all: get_products raises.
Defective(card) ==
    \/ card.title = <<>>
    \/ card.title = << <<>> >>
    \/ card.description = <<>>
    \/ card.price = <<>>
    \/ card.reviews = <<>>
    \/ \E i \in 1..Len(card.price[1]) : card.price[1][i] = ","
    \/ \E i \in 1..Len(card.reviews[1]) : card.reviews[1][i] = " review"
    \/ card.price[1] \in {<<>>, <<"$">>, <<".">>}
    \/ card.reviews[1] \in {<<>>, <<REVIEWS>>}

C8_ExtractionIsAtomic ==
    /\ (pc # "return" /\ \E i \in 1..Len(page[1].dom) : Defective(page[1].dom[i]))
           => (pc = "aborted" /\ failure = "ExtractionError" /\ products = <<>>)
    /\ (pc = "save" =>
           \A i \in 1..Len(products[1]) :
               DOMAIN products[1][i] =
                   {"title", "description", "price", "rating", "num_of_reviews"})

C8_Witness ==
    /\ pc = "aborted"
    /\ failure = "ExtractionError"
    /\ page[1].dom = <<GoodCard, NoPriceCard, OtherCard>>
    /\ products = <<>>

\* C9: the files written so far are a prefix of home, computers, phones,
\* laptops, tablets, touch and the pages navigated to a prefix of the matching
\* urls, at most one ahead; every file written holds this run's records; and
\* an aborted run takes no further step.
C9_SequentialPrefix ==
    /\ [](/\ IsPrefix(written, <<"home.csv", "computers.csv", "phones.csv",
                                 "laptops.csv", "tablets.csv", "touch.csv">>)
          /\ IsPrefix(navigated, <<"more/", "computers/", "phones/",
                                   "computers/laptops", "computers/tablets",
                                   "phones/touch">>)
          /\ Len(written) <= Len(navigated)
          /\ Len(navigated) <= Len(written) + 1
          /\ \A i \in 1..Len(written) :
                 files[written[i]] # <<>> /\ files[written[i]][1] # StaleFile
          /\ (pc = "aborted" /\ failure # "WebDriverException"
                  => Len(navigated) = Len(written) + 1))
    /\ [][pc # "aborted"]_vars

C9_Witness ==
    /\ pc = "aborted"
    /\ written = <<"home.csv", "computers.csv", "phones.csv">>
    /\ Len(navigated) = 4
    /\ files["laptops.csv"] = <<StaleFile>>

\* C10: when every card of the page extracts, get_products returns one record
\* per card, duplicates included, the i-th record being the extraction of the
\* i-th card.
C10_DocumentOrder ==
    /\ (pc = "save" =>
           /\ Len(products[1]) = Len(page[1].dom)
           /\ \A i \in 1..Len(page[1].dom) :
                  parse_single_product(page[1].dom[i]) = <<products[1][i]>>)
    /\ (pc # "return" /\ \A i \in 1..Len(page[1].dom) :
                             ~Raised(parse_single_product(page[1].dom[i])))
           => pc = "save"

C10_Witness ==
    /\ pc = "save"
    /\ page[1].dom = <<GoodCard, OtherCard, GoodCard>>
    /\ products = << <<GoodRecord, OtherRecord, GoodRecord>> >>


\* the file save_to_csv is about to write at line 151
Target == file_names[filenum + 1]

\* C11: save_to_csv writes the literal header row title, description, price,
\* rating, num_of_reviews, then one row per Record in the order of the list,
\* the five fields in the declared order; the previous content of the file
\* is gone and no other file changes.
C11_HeaderThenRowsOverwrite ==
    [][pc = "save" =>
         LET rows == NonBlank(csv_reader(files'[Target][1]))
             records == products[1]
         IN  /\ Len(files'[Target]) = 1
             /\ Len(rows) = Len(records) + 1
             /\ rows[1] = << <<"title">>, <<"description">>, <<"price">>, <<"rating">>,
                             <<"num_of_reviews">> >>
             /\ \A i \in 1..Len(records) :
                    /\ Len(rows[i + 1]) = 5
                    /\ rows[i + 1][1] = translate_newlines(records[i].title, linesep)
                    /\ rows[i + 1][2] = translate_newlines(records[i].description, linesep)
                    /\ float(rows[i + 1][3]) = <<records[i].price>>
                    /\ int(rows[i + 1][4]) = <<records[i].rating>>
                    /\ int(rows[i + 1][5]) = <<records[i].num_of_reviews>>
             /\ \A n \in FileNames \ {Target} : files'[n] = files[n]]_vars

\* an existing computers.csv was replaced by the header and the row of GoodRecord
C11_Witness ==
    /\ written = <<"home.csv", "computers.csv">>
    /\ files["computers.csv"] =
         << <<"title", COMMA, "description", COMMA, "price", COMMA, "rating", COMMA,
              "num_of_reviews", CR, LF,
              "T", COMMA, "a", " ", "b", COMMA, "6", ".", "5", COMMA, "3", COMMA,
              "4", "1", CR, LF>> >>

\* C12: re-reading the file save_to_csv wrote yields exactly the exported
\* records, in order, each field parsing back to the original value.
C12_RoundTrip ==
    [][pc = "save" => read_records(files'[Target][1]) = Return(products[1])]_vars

\* what a destination holds before the run
InitialFile(n) == IF n \in StaleNames THEN <<StaleFile>> ELSE <<>>

\* C13: a file changes only in save_to_csv, after the page was read and every
\* card of it extracted, and then holds the rows of all cards of the page;
\* a destination that was not exported, the one of a failing category
\* included, is as it was before the run.
C13_AllOrNothing ==
    /\ [][files' # files =>
            /\ pc = "save"
            /\ failure = ""
            /\ \A n \in FileNames \ {Target} : files'[n] = files[n]
            /\ \A i \in 1..Len(page[1].dom) : ~Raised(parse_single_product(page[1].dom[i]))
            /\ files'[Target] =
                 <<translate_newlines(
                     csv_writer([i \in 1..Len(page[1].dom) |->
                                    parse_single_product(page[1].dom[i])[1]]),
                     linesep)>>]_vars
    /\ [](\A i \in 1..NumCats :
             (\A j \in 1..Len(written) : written[j] # file_names[i])
                 => files[file_names[i]] = InitialFile(file_names[i]))

\* the second category failed in extraction: home.csv is complete and the
\* existing computers.csv is untouched
C13_Witness ==
    /\ pc = "aborted"
    /\ failure = "ExtractionError"
    /\ filenum = 1
    /\ page[1].dom = <<NoPriceCard>>
    /\ written = <<"home.csv">>
    /\ files["home.csv"] # <<>>
    /\ files["computers.csv"] = <<StaleFile>>

\* the positions a step of get_products_from_page may lead to
StepOrder ==
    [get |-> {"cookies"}, cookies |-> {"find_more"}, find_more |-> {"read_style", "return"},
     read_style |-> {"while"}, while |-> {"click", "return"}, click |-> {"wait"},
     wait |-> {"style"}, style |-> {"while"}, return |-> {"save"}]

\* C14: on each category page the steps run in the order navigate (and
\* settle), cookie check, affordance check, expansion loop, read of the
\* markup; the markup is read only on a page that never had the affordance
\* or whose affordance was last read as hidden, after the last activation.
C14_StepOrder ==
    [][(pc \in PagePcs) =>
         (/\ pc' \in StepOrder[pc] \cup {"aborted"}
          /\ (pc = "get" /\ pc' # "aborted") =>
                 navigated' = Append(navigated, page_urls[filenum + 1])
          /\ pc' = "save" =>
                 (/\ navigated[Len(navigated)] = page_urls[filenum + 1]
                  /\ \/ ~page[1].more /\ more_btn = <<>> /\ page[1].clicks = 0
                     \/ (/\ StyleHidden
                         /\ page[1].remaining = 0
                         /\ page[1].clicks = page[1].K
                         /\ waits = page[1].clicks)))]_vars

\* the markup of a page was read after two activations hid the affordance
C14_Witness ==
    /\ pc = "save"
    /\ page[1].more /\ page[1].K = 2 /\ page[1].clicks = 2 /\ page[1].cookies = FALSE
    /\ page[1].banner
    /\ StyleHidden
    /\ products = << <<GoodRecord>> >>

\* C15: close_driver closes the session and removes the handle from the
\* registry; an acquire that follows a release constructs a session that was
\* never handed out before, and registers it.
C15_ReleaseClearsHandle ==
    /\ [][(pc = "close_driver" /\ pc' = "done") =>
             (/\ _instances' = <<>>
              /\ self \in closed'
              /\ live' = live \ {self})]_vars
    /\ [](pc = "done" => _instances = <<>>)
    /\ [][(pc = "acquire" /\ closed # {} /\ pc' = "get") =>
             (/\ _instances = <<>>
              /\ driver' \notin live \cup closed
              /\ live' = {driver'}
              /\ _instances' = <<driver'>>)]_vars

\* the second call of get_all_products works on a second session
C15_Witness ==
    /\ pc = "get"
    /\ runs = 2
    /\ closed = {1}
    /\ live = {2}
    /\ driver = 2
    /\ _instances = <<2>>
    /\ acquired = NumCats + 2

\* C16: on pages whose affordance is hidden after finitely many activations,
\* or fails to reappear, every run ends: get_all_products returns or an
\* exception leaves it.
C16_RunTerminates == <>Ended

\* a run returned whose last page took two activations
C16_Witness ==
    /\ pc = "done"
    /\ page[1].more /\ page[1].K = 2 /\ page[1].clicks = 2
    /\ Len(written) = NumCats

\* C17: on a page the consent control is clicked at most once, and only when
\* the page showed it: after the cookie check it was clicked exactly when it
\* was shown; when it is absent the check changes nothing on the page and
\* goes on to the affordance check without failure.
C17_CookiesAtMostOnce ==
    /\ [](page # <<>> =>
             /\ page[1].consent_clicks <= 1
             /\ (page[1].consent_clicks = 1 => page[1].banner)
             /\ (pc \in (PagePcs \ {"get", "cookies"}) \cup {"save"} =>
                    /\ page[1].consent_clicks = (IF page[1].banner THEN 1 ELSE 0)
                    /\ cookies_btn = (IF page[1].banner THEN <<COOKIES_SELECTOR>> ELSE <<>>)))
    /\ [][(pc = "cookies" /\ ~page[1].banner) =>
             (pc' = "find_more" /\ failure' = "" /\ page' = page /\ cookies_btn' = <<>>)]_vars

\* the consent control of a page was clicked once and is gone
C17_Witness ==
    /\ pc = "find_more"
    /\ page[1].banner
    /\ ~page[1].cookies
    /\ page[1].consent_clicks = 1
    /\ filenum = 2

\* C18: the rating of a record is the number of star icons of its card,
\* whatever that number is: a card with more than five icons yields that
\* count, and the rating is never the reason an extraction fails.
C18_RatingIsStarCount ==
    /\ (pc = "save" =>
           \A i \in 1..Len(page[1].dom) : products[1][i].rating = page[1].dom[i].stars)
    /\ (pc = "aborted" =>
           \E i \in 1..Len(page[1].dom) :
               \/ Raised(title_of(page[1].dom[i]))
               \/ Raised(description_of(page[1].dom[i]))
               \/ Raised(price_of(page[1].dom[i]))
               \/ Raised(num_of_reviews_of(page[1].dom[i])))

\* a card with six star icons gave a record rated 6
C18_Witness ==
    /\ pc = "save"
    /\ Len(page[1].dom) = 1
    /\ page[1].dom[1].stars = 6
    /\ products[1][1].rating = 6

\* C19: the style is read once before the first activation, so an affordance
\* that is present but hidden is never activated; whenever the loop condition
\* is evaluated the progress counter equals the number of activations and
\* the number of completed waits; a wait that times out leaves the counter
\* one below the number of activations.
C19_CounterCountsActivations ==
    /\ [](pc = "while" =>
             /\ pbar = <<page[1].clicks>>
             /\ waits = page[1].clicks
             /\ more_btn_style = <<get_attribute_style(page[1])>>)
    /\ [](failure = "TimeoutException" => pbar = <<page[1].clicks - 1>>)
    /\ []((page # <<>> /\ page[1].more /\ page[1].K = 0) => page[1].clicks = 0)
    /\ [][(pc = "read_style" /\ pc' = "while") =>
             (page[1].clicks = 0 /\ pbar' = <<0>>
                 /\ more_btn_style' = <<get_attribute_style(page[1])>>)]_vars
    /\ [][(pc = "click" /\ pc' = "wait") =>
             (more_btn_style # <<>> /\ page'[1].clicks = pbar[1] + 1)]_vars

\* the second activation timed out: the counter shows 1
C19_Witness ==
    /\ failure = "TimeoutException"
    /\ page[1].clicks = 2
    /\ waits = 1
    /\ pbar = <<1>>

\* C20: a call in which every category succeeded ends with seven
\* acquisitions and one session ever constructed, the acquisition of line 155
\* returning the registered session without constructing; when the
\* construction fails the registry stays empty, and an acquisition of a
\* later call constructs again and never returns a session that is not live.
C20_ConstructedOnce ==
    /\ []((pc = "done" /\ runs = 1) =>
             (acquired = NumCats + 1 /\ Cardinality(live \cup closed) = 1))
    /\ [][(pc = "release" /\ pc' = "close_driver") =>
             (self' = _instances[1] /\ self' \in live /\ live' = live /\ closed' = closed
                 /\ _instances' = _instances)]_vars
    /\ [](failure = "WebDriverException" => (_instances = <<>> /\ live = {}))
    /\ [][(pc = "acquire" /\ _instances = <<>>) =>
             \/ pc' = "get" /\ driver' \notin live \cup closed /\ live' = {driver'}
                    /\ _instances' = <<driver'>>
             \/ pc' = "aborted" /\ failure' = "WebDriverException" /\ _instances' = <<>>
                    /\ live' = live]_vars

\* the construction failed in the first call and succeeded in the second
C20_Witness ==
    /\ pc = "get"
    /\ runs = 2
    /\ acquired = 2
    /\ closed = {}
    /\ live = {1}
    /\ driver = 1
    /\ _instances = <<1>>

=========================================================================
